---- MODULE Spec2Model ----
(***************************************************************************)
(* Slot reconciliation of the two Intersight reports, blades.py (slot rows *)
(* only) and chassis.py (slot rows plus a per-model summary).  One run of  *)
(* main() is modelled: the chassis list call, and per chassis the state    *)
(* normalisation, the blade list call, the direct-assignment map, the      *)
(* two-slot expansion, the summary tally and the slot rows.                *)
(*                                                                         *)
(* Python strings the code trims or parses are sequences of one-character  *)
(* strings, so that strip() and int() are computed and not assumed.        *)
(***************************************************************************)
EXTENDS Integers, Sequences, FiniteSets, TLC

VARIABLES
    variant,                      \* "blades" (blades.py) or "chassis" (chassis.py)
    api,                          \* what the two list endpoints answer in this run
    pc,                           \* position of main()
    error,                        \* "" or the except clause that ended the run
    csvfile,                      \* the records written so far, in order
    idx,                          \* position of the current chassis in the list
    chassis_model_str,
    reported_chassis_oper_state,
    total_slots,
    blades_in_chassis_response,
    populated_slots_details,      \* ordered dict: sequence of [key, model, serial]
    expanded_slots_details,       \* ordered dict, chassis.py only
    model_summary_counts,         \* ordered dict model -> ordered dict status -> count
    slot_num

vars == <<variant, api, pc, error, csvfile, idx, chassis_model_str,
          reported_chassis_oper_state, total_slots, blades_in_chassis_response,
          populated_slots_details, expanded_slots_details, model_summary_counts,
          slot_num>>

-----------------------------------------------------------------------------
(* Bounds of the checked runs *)

MaxChassis == 2
MaxBlades == 2

-----------------------------------------------------------------------------
(* Program constants *)

CHASSIS_SLOT_COUNTS ==
    ("UCSB-5108-AC2" :> 8) @@ ("UCSB-5108-DC2" :> 8) @@ ("UCSX-9508" :> 8)

DEFAULT_SLOT_COUNT == 8

TWO_SLOT_MODELS == {"UCSX-410C-M7", "UCSB-B480-M5"}

S_Empty == <<"E","m","p","t","y">>
S_operable == <<"o","p","e","r","a","b","l","e">>
S_UnknownChassisState ==
    <<"U","n","k","n","o","w","n","C","h","a","s","s","i","s","S","t","a","t","e">>
S_NotReported ==
    <<"N","o","t","R","e","p","o","r","t","e","d"," ","(","C","h","a","s","s","i","s",
      "S","t","a","t","e","_","i","s","_","N","o","n","e",")">>

-----------------------------------------------------------------------------
(* Python built-ins the code relies on *)

IsSpace(c) == c \in {" ", "\t", "\n", "\r"}

RECURSIVE LStrip(_)
LStrip(s) == IF s # <<>> /\ IsSpace(Head(s)) THEN LStrip(Tail(s)) ELSE s

RECURSIVE RStrip(_)
RStrip(s) ==
    IF s # <<>> /\ IsSpace(s[Len(s)]) THEN RStrip(SubSeq(s, 1, Len(s) - 1)) ELSE s

\* str.strip()
Strip(s) == RStrip(LStrip(s))

Digits == {"0","1","2","3","4","5","6","7","8","9"}

DigitVal(c) ==
    CASE c = "0" -> 0 [] c = "1" -> 1 [] c = "2" -> 2 [] c = "3" -> 3 [] c = "4" -> 4
      [] c = "5" -> 5 [] c = "6" -> 6 [] c = "7" -> 7 [] c = "8" -> 8 [] c = "9" -> 9

RECURSIVE DigitsVal(_)
DigitsVal(s) ==
    IF s = <<>> THEN 0 ELSE 10 * DigitsVal(SubSeq(s, 1, Len(s) - 1)) + DigitVal(s[Len(s)])

\* int(x): [exc, val].  exc is "" when a value comes back, else the exception raised.
\* An int is returned as it is; a str is trimmed and read as an optionally signed
\* decimal (ValueError otherwise); any other object raises TypeError.
PyInt(x) ==
    CASE x.kind = "int" -> [exc |-> "", val |-> x.ival]
      [] x.kind = "str" ->
            LET t == Strip(x.sval)
                signed == t # <<>> /\ Head(t) \in {"+", "-"}
                body == IF signed THEN Tail(t) ELSE t
            IN  IF body # <<>> /\ \A i \in 1..Len(body) : body[i] \in Digits
                THEN [exc |-> "",
                      val |-> IF signed /\ Head(t) = "-" THEN 0 - DigitsVal(body)
                                                          ELSE DigitsVal(body)]
                ELSE [exc |-> "ValueError", val |-> 0]
      [] OTHER -> [exc |-> "TypeError", val |-> 0]

\* Ordered dict as a sequence of entries with distinct keys, in first-insertion order
DictHas(d, k) == \E i \in 1..Len(d) : d[i].key = k

DictGet(d, k) == d[CHOOSE i \in 1..Len(d) : d[i].key = k]

\* setdefault in place of assignment: the first value of a key stays
DictSetKeepFirst(d, e) == IF DictHas(d, e.key) THEN d ELSE Append(d, e)

\* d[k] = e: an existing key keeps its position, a new key goes last
DictSet(d, e) ==
    IF DictHas(d, e.key)
    THEN [i \in 1..Len(d) |-> IF d[i].key = e.key THEN e ELSE d[i]]
    ELSE Append(d, e)

-----------------------------------------------------------------------------
(* What the API can answer *)

Chars(kind, s) == [kind |-> kind, ival |-> 0, sval |-> s]
Missing == Chars("missing", <<>>)          \* the record has no such attribute
None == Chars("none", <<>>)                \* the attribute is None
StrVal(s) == Chars("str", s)                  \* a str
IntVal(n) == [kind |-> "int", ival |-> n, sval |-> <<>>]
Obj == Chars("obj", <<>>)                  \* neither str, number nor None (a list, a dict)

\* chassis.model: a falsy value ("" here) stands for an absent or empty model
ChassisModelsRaw == {"UCSX-9508", "UCSX-9999", ""}

RawStates ==
    { Missing, None, Obj, StrVal(<<>>), StrVal(<<" ", "\t">>),
      StrVal(<<" "," ","O","p","e","r","a","b","l","e"," "," ">>) }

ChassisRecords == [model : ChassisModelsRaw, oper_state : RawStates]

SlotIdsRaw ==
    { Missing, None, Obj, IntVal(0), IntVal(7), IntVal(8), IntVal(9),
      StrVal(<<" ", "8">>), StrVal(<<"x">>) }

TwoSlotBlade == "UCSX-410C-M7"
OneSlotBlade == "UCSX-210C-M7"
BladeModelsRaw == {TwoSlotBlade, OneSlotBlade}

\* the j-th blade of a response carries the j-th serial, so a serial names a blade
Serials == <<"SN1", "SN2", "SN3", "SN4", "SN5", "SN6", "SN7", "SN8", "SN9">>

Blade(slot, model, j) == [slot_id |-> slot, model |-> model, serial |-> Serials[j]]

BladeListsOfLen(k) ==
    { [j \in 1..k |-> Blade(f[j][1], f[j][2], j)] :
        f \in [1..k -> SlotIdsRaw \X BladeModelsRaw] }

BladeLists == UNION { BladeListsOfLen(k) : k \in 0..MaxBlades }

\* more blades than slots, and more slots consumed than the chassis has
NineSingles == [j \in 1..9 |-> Blade(IntVal(j), OneSlotBlade, j)]
FiveDoubles == [j \in 1..5 |-> Blade(IntVal(IF j = 5 THEN 8 ELSE 2 * j - 1), TwoSlotBlade, j)]
LongLists == {NineSingles, FiveDoubles}

Answer(r) == [ok |-> TRUE, results |-> r]
APIError == [ok |-> FALSE, results |-> <<>>]

\* The checked answers come in three families, each wide in one direction:
\* one chassis of every kind with few blades; one chassis with every blade list up
\* to MaxBlades and the long lists; and up to MaxChassis chassis with a blade each.
FewBladeAnswers ==
    { Answer(<<>>), Answer(<<Blade(IntVal(7), TwoSlotBlade, 1)>>),
      Answer(<<Blade(IntVal(8), OneSlotBlade, 1)>>), APIError }

BladeWorldChassis ==
    { [model |-> "UCSX-9508",
       oper_state |-> StrVal(<<" "," ","O","p","e","r","a","b","l","e"," "," ">>)],
      [model |-> "", oper_state |-> None] }

FleetChassisRecords ==
    [model : {"UCSX-9508", ""},
     oper_state : {Missing, StrVal(<<" "," ","O","p","e","r","a","b","l","e"," "," ">>)}]

FleetBladeAnswers == FewBladeAnswers \ {Answer(<<>>)}

World(cs, bs) == [chassis |-> cs, blades |-> bs]

-----------------------------------------------------------------------------
(* The code's steps as operators *)

ChassisModelStr(c) == IF c.model # "" THEN c.model ELSE "UNKNOWN_MODEL"

\* the default set once before the chassis loop: a chassis without the attribute
\* keeps the state of the chassis before it
NormalizeOperStateStale(raw) ==
    IF raw.kind # "missing"
    THEN CASE raw.kind = "str" /\ Strip(raw.sval) # <<>> -> Strip(raw.sval)
           [] raw.kind = "str" /\ Strip(raw.sval) = <<>> -> S_operable
           [] raw.kind = "none" -> S_NotReported
           [] OTHER -> S_UnknownChassisState
    ELSE IF idx > 1 THEN reported_chassis_oper_state ELSE S_UnknownChassisState

\* the raw text used untrimmed
NormalizeOperStateNoStrip(raw) ==
    IF raw.kind # "missing"
    THEN CASE raw.kind = "str" /\ Strip(raw.sval) # <<>> -> raw.sval
           [] raw.kind = "str" /\ Strip(raw.sval) = <<>> -> S_operable
           [] raw.kind = "none" -> S_NotReported
           [] OTHER -> S_UnknownChassisState
    ELSE S_UnknownChassisState

\* chassis state normalisation
NormalizeOperState(raw) ==
    IF raw.kind # "missing"
    THEN CASE raw.kind = "str" /\ Strip(raw.sval) # <<>> -> Strip(raw.sval)
           [] raw.kind = "str" /\ Strip(raw.sval) = <<>> -> S_operable
           [] raw.kind = "none" -> S_NotReported
           [] OTHER -> S_UnknownChassisState
    ELSE S_UnknownChassisState

\* .get(model, 0): no fallback for a model outside the table
TotalSlotsNoDefault(model) ==
    IF model \in DOMAIN CHASSIS_SLOT_COUNTS THEN CHASSIS_SLOT_COUNTS[model] ELSE 0

TotalSlots(model) ==
    IF model \in DOMAIN CHASSIS_SLOT_COUNTS THEN CHASSIS_SLOT_COUNTS[model]
    ELSE DEFAULT_SLOT_COUNT

BladeModelStr(b) == IF b.model # "" THEN b.model ELSE "UnknownBladeModel"

Entry(k, m, s) == [key |-> k, model |-> m, serial |-> s]

\* the loop over the blade list: [exc, dict]
RECURSIVE Populate(_, _, _)
Populate(blades, j, d) ==
    IF j > Len(blades) THEN [exc |-> "", dict |-> d]
    ELSE LET b == blades[j]
         IN  IF b.slot_id.kind \notin {"missing", "none"}
             THEN LET r == PyInt(b.slot_id)
                  IN  CASE r.exc = "" ->
                             Populate(blades, j + 1,
                                      DictSet(d, Entry(r.val, BladeModelStr(b), b.serial)))
                        [] r.exc = "ValueError" -> Populate(blades, j + 1, d)
                        [] OTHER -> [exc |-> r.exc, dict |-> d]
             ELSE Populate(blades, j + 1, d)

\* the expansion without the check against total_slots
RECURSIVE ExpandUnbounded(_, _, _, _)
ExpandUnbounded(pop, j, e, total) ==
    IF j > Len(pop) THEN e
    ELSE LET p == pop[j]
             e1 == DictSet(e, p)
             e2 == IF p.model \in TWO_SLOT_MODELS
                   THEN DictSet(e1, Entry(p.key + 1, p.model, p.serial))
                   ELSE e1
         IN  ExpandUnbounded(pop, j + 1, e2, total)

\* the two-slot expansion, in the order of the direct-assignment map
RECURSIVE Expand(_, _, _, _)
Expand(pop, j, e, total) ==
    IF j > Len(pop) THEN e
    ELSE LET p == pop[j]
             e1 == DictSet(e, p)
             e2 == IF p.model \in TWO_SLOT_MODELS /\ p.key + 1 <= total
                   THEN DictSet(e1, Entry(p.key + 1, p.model, p.serial))
                   ELSE e1
         IN  Expand(pop, j + 1, e2, total)

\* every blade taken to fill one slot
SlotsOccupiedOneEach(pop, j) == Len(pop) - (j - 1)

RECURSIVE SlotsOccupied(_, _)
SlotsOccupied(pop, j) ==
    IF j > Len(pop) THEN 0
    ELSE (IF pop[j].model \in TWO_SLOT_MODELS THEN 2 ELSE 1) + SlotsOccupied(pop, j + 1)

StatusEntry(k, n) == [key |-> k, count |-> n]
ModelEntry(m, st) == [key |-> m, statuses |-> st]

\* counts[model][status] += n, after setdefault(status, 0)
AddCount(counts, model, status, n) ==
    LET st == DictGet(counts, model).statuses
        old == IF DictHas(st, status) THEN DictGet(st, status).count ELSE 0
    IN  DictSet(counts, ModelEntry(model, DictSet(st, StatusEntry(status, old + n))))

\* the summary tally of one chassis
Tally(counts, model, state, pop, total) ==
    LET c0 == IF DictHas(counts, model) THEN counts
              ELSE DictSet(counts, ModelEntry(model, <<>>))
        c1 == IF Len(pop) > 0 THEN AddCount(c0, model, state, Len(pop)) ELSE c0
        num_empty_slots == total - SlotsOccupied(pop, 1)
    IN  IF num_empty_slots > 0 THEN AddCount(c1, model, S_Empty, num_empty_slots) ELSE c1

Row(kind, chassis, cmodel, slot, bmodel, bserial, state, count) ==
    [kind |-> kind, Chassis |-> chassis, ChassisModel |-> cmodel, Slot |-> slot,
     BladeModel |-> bmodel, BladeSerial |-> bserial, OperState |-> state,
     Count |-> count]

HeaderRow == Row("header", 0, "", 0, "", "", <<>>, 0)

\* an unclaimed slot written with the chassis state instead of "Empty"
SlotRowStateAlways(chassis, cmodel, state, d, n) ==
    IF DictHas(d, n)
    THEN Row("slot", chassis, cmodel, n, DictGet(d, n).model, DictGet(d, n).serial, state, 0)
    ELSE Row("slot", chassis, cmodel, n, "", "", state, 0)

\* the row of one slot, from the map the variant looks slots up in
SlotRow(chassis, cmodel, state, d, n) ==
    IF DictHas(d, n)
    THEN Row("slot", chassis, cmodel, n, DictGet(d, n).model, DictGet(d, n).serial, state, 0)
    ELSE Row("slot", chassis, cmodel, n, "", "", S_Empty, 0)

RECURSIVE StatusRows(_, _, _)
StatusRows(model, st, j) ==
    IF j > Len(st) THEN <<>>
    ELSE <<Row("summary", 0, model, 0, "", "", st[j].key, st[j].count)>>
            \o StatusRows(model, st, j + 1)

RECURSIVE SummaryRows(_, _)
SummaryRows(counts, j) ==
    IF j > Len(counts) THEN <<>>
    ELSE StatusRows(counts[j].key, counts[j].statuses, 1) \o SummaryRows(counts, j + 1)

SummaryBlock(counts) ==
    << Row("blank", 0, "", 0, "", "", <<>>, 0), Row("blank", 0, "", 0, "", "", <<>>, 0),
       Row("title", 0, "", 0, "", "", <<>>, 0), Row("columns", 0, "", 0, "", "", <<>>, 0) >>
        \o SummaryRows(counts, 1)

-----------------------------------------------------------------------------
(* The run *)

Init ==
    /\ variant \in {"blades", "chassis"}
    /\ \/ api \in {World(APIError, <<>>), World(Answer(<<>>), <<>>)}
       \/ \E c \in ChassisRecords, b \in FewBladeAnswers :
             api = World(Answer(<<c>>), <<b>>)
       \/ \E c \in BladeWorldChassis, l \in BladeLists \cup LongLists :
             api = World(Answer(<<c>>), <<Answer(l)>>)
       \/ \E n \in 2..MaxChassis :
             \E cs \in [1..n -> FleetChassisRecords], bs \in [1..n -> FleetBladeAnswers] :
                api = World(Answer(cs), bs)
    /\ pc = "start"
    /\ error = ""
    /\ csvfile = <<>>
    /\ idx = 0
    /\ chassis_model_str = ""
    /\ reported_chassis_oper_state = <<>>
    /\ total_slots = 0
    /\ blades_in_chassis_response = APIError
    /\ populated_slots_details = <<>>
    /\ expanded_slots_details = <<>>
    /\ model_summary_counts = <<>>
    /\ slot_num = 0

\* the file is opened, the header written and the chassis list fetched
FetchChassis ==
    /\ pc = "start"
    /\ csvfile' = <<HeaderRow>>
    /\ IF ~api.chassis.ok
       THEN pc' = "aborted" /\ error' = "OpenApiException" /\ idx' = idx
       ELSE IF Len(api.chassis.results) = 0
            THEN pc' = "done" /\ error' = error /\ idx' = idx
            ELSE pc' = "chassis" /\ error' = error /\ idx' = 1
    /\ UNCHANGED <<variant, api, chassis_model_str, reported_chassis_oper_state,
                   total_slots, blades_in_chassis_response, populated_slots_details,
                   expanded_slots_details, model_summary_counts, slot_num>>

\* a failed blade list call taken for a chassis without blades
FetchBladesTolerant ==
    /\ pc = "chassis"
    /\ LET c == api.chassis.results[idx]
       IN  /\ chassis_model_str' = ChassisModelStr(c)
           /\ reported_chassis_oper_state' = NormalizeOperState(c.oper_state)
           /\ total_slots' = TotalSlots(ChassisModelStr(c))
    /\ blades_in_chassis_response' = api.blades[idx]
    /\ pc' = "reconcile"
    /\ UNCHANGED <<variant, api, error, csvfile, idx, populated_slots_details,
                   expanded_slots_details, model_summary_counts, slot_num>>

\* top of the loop body: the chassis fields, then the blade list call
FetchBlades ==
    /\ pc = "chassis"
    /\ LET c == api.chassis.results[idx]
       IN  /\ chassis_model_str' = ChassisModelStr(c)
           /\ reported_chassis_oper_state' = NormalizeOperState(c.oper_state)
           /\ total_slots' = TotalSlots(ChassisModelStr(c))
    /\ blades_in_chassis_response' = api.blades[idx]
    /\ IF api.blades[idx].ok
       THEN pc' = "reconcile" /\ error' = error
       ELSE pc' = "aborted" /\ error' = "OpenApiException"
    /\ UNCHANGED <<variant, api, csvfile, idx, populated_slots_details,
                   expanded_slots_details, model_summary_counts, slot_num>>

\* the direct-assignment map, and in chassis.py the expansion and the tally
Reconcile ==
    /\ pc = "reconcile"
    /\ LET r == Populate(blades_in_chassis_response.results, 1, <<>>)
       IN  /\ populated_slots_details' = r.dict
           /\ IF r.exc # ""
              THEN /\ pc' = "aborted"
                   /\ error' = "Exception"
                   /\ UNCHANGED <<expanded_slots_details, model_summary_counts, slot_num>>
              ELSE /\ pc' = "rows"
                   /\ error' = error
                   /\ slot_num' = 1
                   /\ IF variant = "chassis"
                      THEN /\ expanded_slots_details' = Expand(r.dict, 1, <<>>, total_slots)
                           /\ model_summary_counts' =
                                  Tally(model_summary_counts, chassis_model_str,
                                        reported_chassis_oper_state, r.dict, total_slots)
                      ELSE UNCHANGED <<expanded_slots_details, model_summary_counts>>
    /\ UNCHANGED <<variant, api, csvfile, idx, chassis_model_str,
                   reported_chassis_oper_state, total_slots, blades_in_chassis_response>>

LookupMap == IF variant = "chassis" THEN expanded_slots_details ELSE populated_slots_details

\* one pass of the slot loop
WriteRow ==
    /\ pc = "rows"
    /\ slot_num <= total_slots
    /\ csvfile' = Append(csvfile, SlotRow(idx, chassis_model_str,
                                          reported_chassis_oper_state, LookupMap, slot_num))
    /\ slot_num' = slot_num + 1
    /\ UNCHANGED <<variant, api, pc, error, idx, chassis_model_str,
                   reported_chassis_oper_state, total_slots, blades_in_chassis_response,
                   populated_slots_details, expanded_slots_details, model_summary_counts>>

\* the slot loop is over: the next chassis, or the end of the chassis loop
EndChassis ==
    /\ pc = "rows"
    /\ slot_num > total_slots
    /\ IF idx < Len(api.chassis.results)
       THEN idx' = idx + 1 /\ pc' = "chassis"
       ELSE idx' = idx /\ pc' = IF variant = "chassis" THEN "summary" ELSE "done"
    /\ UNCHANGED <<variant, api, error, csvfile, chassis_model_str,
                   reported_chassis_oper_state, total_slots, blades_in_chassis_response,
                   populated_slots_details, expanded_slots_details, model_summary_counts,
                   slot_num>>

\* chassis.py: the summary block after the last chassis
AppendSummary ==
    /\ pc = "summary"
    /\ csvfile' = csvfile \o SummaryBlock(model_summary_counts)
    /\ pc' = "done"
    /\ UNCHANGED <<variant, api, error, idx, chassis_model_str,
                   reported_chassis_oper_state, total_slots, blades_in_chassis_response,
                   populated_slots_details, expanded_slots_details, model_summary_counts,
                   slot_num>>

Next ==
    FetchChassis \/ FetchBlades \/ Reconcile \/ WriteRow \/ EndChassis \/ AppendSummary

Spec == Init /\ [][Next]_vars

-----------------------------------------------------------------------------
(* The run's inputs, read off the API answers and not off the code's maps *)

ChassisCount == IF api.chassis.ok THEN Len(api.chassis.results) ELSE 0

BladesOf(i) == api.blades[i].results

\* the blades of chassis i that have a slot index int() accepts
ParsedAt(i) ==
    { j \in 1..Len(BladesOf(i)) :
        /\ BladesOf(i)[j].slot_id.kind \notin {"missing", "none"}
        /\ PyInt(BladesOf(i)[j].slot_id).exc = "" }

SlotOf(i, j) == PyInt(BladesOf(i)[j].slot_id).val

DirectKeys(i) == { SlotOf(i, j) : j \in ParsedAt(i) }

At(i, s) == { j \in ParsedAt(i) : SlotOf(i, j) = s }

\* the last, and the position of the first, blade of chassis i reporting slot s
LastAt(i, s) == BladesOf(i)[CHOOSE j \in At(i, s) : \A k \in At(i, s) : k <= j]
FirstPos(i, s) == CHOOSE j \in At(i, s) : \A k \in At(i, s) : j <= k

TwoSlotAt(i, s) == s \in DirectKeys(i) /\ LastAt(i, s).model \in TWO_SLOT_MODELS

\* the capacity-table value of chassis i's model, or the default
ExpectedSlots(i) ==
    LET m == ChassisModelStr(api.chassis.results[i])
    IN  IF m \in {"UCSB-5108-AC2", "UCSB-5108-DC2", "UCSX-9508"}
        THEN CHASSIS_SLOT_COUNTS[m] ELSE 8

\* chassis i's slot loop has run to its end
Processed(i) == i < idx \/ (i = idx /\ pc \in {"summary", "done"})

SlotRowsAt == { p \in 1..Len(csvfile) : csvfile[p].kind = "slot" }

RowsOf(i) == { p \in SlotRowsAt : csvfile[p].Chassis = i }

RowsOfSlot(i, s) == { p \in RowsOf(i) : csvfile[p].Slot = s }

\* slot s of chassis i is claimed by a blade, as the variant claims slots
Claimed(i, s) ==
    \/ s \in DirectKeys(i)
    \/ variant = "chassis" /\ TwoSlotAt(i, s - 1)

-----------------------------------------------------------------------------
(* C1 *)

\* C1: every chassis whose slot loop has run has exactly total_slots slot rows, one
\* for each slot index 1..total_slots, total_slots being the capacity-table value of
\* its model or the default 8, whatever blades were reported; and a run that ends
\* without an exception has run the slot loop of every chassis of the list.
C1_RowCount ==
    /\ \A i \in 1..ChassisCount :
          Processed(i) =>
             /\ Cardinality(RowsOf(i)) = ExpectedSlots(i)
             /\ \A s \in 1..ExpectedSlots(i) : Cardinality(RowsOfSlot(i, s)) = 1
    /\ pc \in {"summary", "done"} => \A i \in 1..ChassisCount : Processed(i)

\* nine blades in slots 1..9 of an eight-slot chassis, and its eight rows
C1_Witness ==
    /\ pc = "done"
    /\ ChassisCount = 1
    /\ Len(BladesOf(1)) = 9
    /\ Cardinality(RowsOf(1)) = 8

-----------------------------------------------------------------------------
(* C3, C4 *)

\* the state the chassis reports, normalised: the trimmed text of a non-blank string,
\* "operable" for a blank one, the not-reported text for None, else the unknown text
StateOf(i) ==
    LET raw == api.chassis.results[i].oper_state
    IN  CASE raw.kind = "str" /\ Strip(raw.sval) # <<>> -> Strip(raw.sval)
          [] raw.kind = "str" -> <<"o","p","e","r","a","b","l","e">>
          [] raw.kind = "none" -> S_NotReported
          [] OTHER -> S_UnknownChassisState

\* C3: the row of a slot no blade claims (not a key of the direct-assignment map and,
\* in chassis.py only, not the slot after a two-slot blade) has an empty BladeModel,
\* an empty BladeSerial and OperState "Empty"; in blades.py that includes the slot
\* after a two-slot blade.
C3_UnclaimedEmpty ==
    \A p \in SlotRowsAt :
        LET r == csvfile[p]
        IN  ~Claimed(r.Chassis, r.Slot) =>
               /\ r.BladeModel = ""
               /\ r.BladeSerial = ""
               /\ r.OperState = <<"E","m","p","t","y">>

\* blades.py: the slot after a two-slot blade is written as an empty slot
C3_Witness ==
    /\ variant = "blades"
    /\ \E p \in SlotRowsAt :
          /\ TwoSlotAt(csvfile[p].Chassis, csvfile[p].Slot - 1)
          /\ csvfile[p].Slot \notin DirectKeys(csvfile[p].Chassis)
          /\ csvfile[p].BladeModel = ""
          /\ StateOf(csvfile[p].Chassis) # S_Empty

\* C4: the row of an occupied slot (directly assigned, or in chassis.py the slot after
\* a two-slot blade) carries the normalised state of its own chassis, whatever the
\* blade is and whatever state the chassis before it had.
C4_OccupiedState ==
    \A p \in SlotRowsAt :
        LET r == csvfile[p]
        IN  Claimed(r.Chassis, r.Slot) => r.OperState = StateOf(r.Chassis)

\* occupied rows of two chassis of one run that report different states
C4_Witness ==
    \E p, q \in SlotRowsAt :
        /\ csvfile[p].Chassis = 1 /\ csvfile[q].Chassis = 2
        /\ Claimed(1, csvfile[p].Slot) /\ Claimed(2, csvfile[q].Slot)
        /\ csvfile[p].OperState # csvfile[q].OperState
        /\ api.chassis.results[2].oper_state.kind = "missing"

-----------------------------------------------------------------------------
(* C6 *)

Duplicated(i) == { s \in DirectKeys(i) : Cardinality(At(i, s)) >= 2 }

\* C6: when several blades of a chassis report one slot index, the direct-assignment
\* entry of that slot holds the model and serial of the last of them in API order, and
\* the slot has one row, never two (none when the index is outside 1..total_slots).
C6_LastWins ==
    /\ pc = "rows" =>
          \A s \in Duplicated(idx) :
             /\ DictHas(populated_slots_details, s)
             /\ DictGet(populated_slots_details, s).model = LastAt(idx, s).model
             /\ DictGet(populated_slots_details, s).serial = LastAt(idx, s).serial
    /\ \A i \in 1..ChassisCount : \A s \in Duplicated(i) :
          /\ Cardinality(RowsOfSlot(i, s)) <= 1
          /\ Processed(i) =>
                Cardinality(RowsOfSlot(i, s)) = IF s \in 1..ExpectedSlots(i) THEN 1 ELSE 0

\* two blades of different models in one slot, and the row of the slot written
C6_Witness ==
    /\ pc = "rows"
    /\ \E s \in Duplicated(idx) :
          /\ s < slot_num
          /\ s >= 1
          /\ \E j \in At(idx, s) : BladesOf(idx)[j].model # LastAt(idx, s).model

-----------------------------------------------------------------------------
(* C8 *)

RECURSIVE BlockLayout(_, _)
\* <<chassis, slot>> of the rows of chassis i..k-1, slots ascending in each block
BlockLayout(i, k) ==
    IF i >= k THEN <<>>
    ELSE [s \in 1..ExpectedSlots(i) |-> <<i, s>>] \o BlockLayout(i + 1, k)

\* the file is the header and then the complete blocks of chassis 1..k-1
PrefixBefore(k) ==
    /\ Len(csvfile) >= 1
    /\ csvfile[1] = HeaderRow
    /\ \A p \in 2..Len(csvfile) : csvfile[p].kind = "slot"
    /\ [p \in 1..(Len(csvfile) - 1) |-> <<csvfile[p + 1].Chassis, csvfile[p + 1].Slot>>]
          = BlockLayout(1, k)

\* C8: when the blade list call of the k-th chassis fails, the run ends there and the
\* file is the header and the complete blocks of chassis 1..k-1, in API order with
\* slots ascending; no row of chassis k or of a later chassis and no summary record
\* is ever written; and the blade list call of a chassis starts only when the blocks
\* of all chassis before it are complete.
C8_AbortPrefix ==
    /\ (pc = "aborted" /\ error = "OpenApiException") =>
          /\ ~ENABLED Next
          /\ IF idx = 0 THEN csvfile = <<HeaderRow>> ELSE PrefixBefore(idx)
    /\ pc = "chassis" => PrefixBefore(idx)
    /\ \A p \in 1..Len(csvfile) :
          /\ csvfile[p].kind = "slot" =>
                \A k \in 1..csvfile[p].Chassis : api.blades[k].ok
          /\ csvfile[p].kind \notin {"header", "slot"} =>
                \A k \in 1..ChassisCount : api.blades[k].ok

\* the blade list call of the second chassis failed after the first block was written
C8_Witness ==
    /\ pc = "aborted"
    /\ error = "OpenApiException"
    /\ idx = 2
    /\ variant = "chassis"
    /\ Len(csvfile) = 9

-----------------------------------------------------------------------------
(* C9 *)

\* the state of the current chassis has been normalised
Normalised == pc \in {"reconcile", "rows"}

RawState == api.chassis.results[idx].oper_state

\* the four cases of the normalisation that do not turn on what else yields the
\* unknown text
C9_Cases ==
    /\ (RawState.kind = "str" /\ Strip(RawState.sval) # <<>>) =>
          reported_chassis_oper_state = Strip(RawState.sval)
    /\ RawState = StrVal(<<" "," ","O","p","e","r","a","b","l","e"," "," ">>) =>
          reported_chassis_oper_state = <<"O","p","e","r","a","b","l","e">>
    /\ (RawState.kind = "str" /\ \A k \in 1..Len(RawState.sval) : IsSpace(RawState.sval[k])) =>
          reported_chassis_oper_state = <<"o","p","e","r","a","b","l","e">>
    /\ RawState.kind = "none" => reported_chassis_oper_state = S_NotReported
    /\ RawState.kind = "missing" => reported_chassis_oper_state = S_UnknownChassisState

\* C9 as claimed: the four cases, and "UnknownChassisState" exactly when the state
\* field is missing from the record.
C9_Original ==
    Normalised =>
       /\ C9_Cases
       /\ reported_chassis_oper_state = S_UnknownChassisState <=> RawState.kind = "missing"

\* C9 amended: the four cases, and "UnknownChassisState" when the field is missing and
\* also when it is present but neither a string nor None (or a string that trims to
\* that very text), and in no other case; computed anew for every chassis.
C9_Normalisation ==
    Normalised =>
       /\ C9_Cases
       /\ reported_chassis_oper_state = S_UnknownChassisState <=>
             \/ RawState.kind \in {"missing", "obj"}
             \/ RawState.kind = "str" /\ Strip(RawState.sval) = S_UnknownChassisState

\* a chassis whose state is present but neither a string nor None, normalised
C9_Witness ==
    /\ Normalised
    /\ RawState.kind = "obj"
    /\ reported_chassis_oper_state = S_UnknownChassisState

-----------------------------------------------------------------------------
(* C2 *)

RECURSIVE SumCounts(_, _)
SumCounts(st, j) == IF j > Len(st) THEN 0 ELSE st[j].count + SumCounts(st, j + 1)

RECURSIVE SumOver(_, _)
SumOver(f, S) ==
    IF S = {} THEN 0 ELSE LET x == CHOOSE x \in S : TRUE IN f[x] + SumOver(f, S \ {x})

ChassisOfModel(m) ==
    { i \in 1..ChassisCount : ChassisModelStr(api.chassis.results[i]) = m }

ModelsSeen == { ChassisModelStr(api.chassis.results[i]) : i \in 1..ChassisCount }

\* the sum of all status counts kept for chassis model m
CountedFor(m) ==
    IF DictHas(model_summary_counts, m)
    THEN SumCounts(DictGet(model_summary_counts, m).statuses, 1) ELSE 0

\* slots the blades of chassis i consume: two for a two-slot model, else one
Consumed(i) ==
    Cardinality(DirectKeys(i)) + Cardinality({ s \in DirectKeys(i) : TwoSlotAt(i, s) })

\* what chassis i adds to the counts of its model: one per directly assigned blade
\* and the slots left over, if any
Counted(i) ==
    Cardinality(DirectKeys(i))
        + (IF ExpectedSlots(i) > Consumed(i) THEN ExpectedSlots(i) - Consumed(i) ELSE 0)

AllTallied == variant = "chassis" /\ pc \in {"summary", "done"} /\ ChassisCount >= 1

-----------------------------------------------------------------------------
(* C5, C10 *)

\* the maps of the current chassis are built
Reconciled == variant = "chassis" /\ pc = "rows"

RowCarries(r, b, i) ==
    /\ r.BladeModel = b.model
    /\ r.BladeSerial = b.serial
    /\ r.OperState = StateOf(i)

\* no slot is claimed that no blade reports and that is beyond total_slots
NoPhantomSlot ==
    /\ Reconciled =>
          \A j \in 1..Len(expanded_slots_details) :
             LET k == expanded_slots_details[j].key
             IN  k \in DirectKeys(idx) \/ (k <= total_slots /\ TwoSlotAt(idx, k - 1))
    /\ \A p \in SlotRowsAt : csvfile[p].Slot \in 1..ExpectedSlots(csvfile[p].Chassis)

OwnBladeLater(i, s) ==
    s \in DirectKeys(i) /\ FirstPos(i, s) > FirstPos(i, s - 1)

C10_DirectWins ==
    variant = "chassis" =>
       \A p \in SlotRowsAt :
          LET r == csvfile[p]
          IN  r.Slot \in DirectKeys(r.Chassis) =>
                 /\ r.BladeModel = LastAt(r.Chassis, r.Slot).model
                 /\ r.BladeSerial = LastAt(r.Chassis, r.Slot).serial

-----------------------------------------------------------------------------
(* C7 *)

\* the blades of chassis i whose slot index is missing, None or not an integer
Unusable(i) == (1..Len(BladesOf(i))) \ ParsedAt(i)

\* C7 as claimed: a blade whose slot index is missing, None or cannot be read as an
\* integer is skipped; it is in no row and no count, the other blades of the chassis
\* are reconciled, the chassis gets its total_slots rows and the run goes on: the run
\* ends early only on a failed API call.
C7_SkipUnusable ==
    /\ pc = "aborted" => error = "OpenApiException"
    /\ \A p \in SlotRowsAt :
          \A j \in Unusable(csvfile[p].Chassis) :
             csvfile[p].BladeSerial # BladesOf(csvfile[p].Chassis)[j].serial
    /\ \A i \in 1..ChassisCount :
          (Processed(i) /\ Unusable(i) # {}) =>
             /\ Cardinality(RowsOf(i)) = ExpectedSlots(i)
             /\ \A s \in DirectKeys(i) \cap (1..ExpectedSlots(i)) :
                   \E p \in RowsOfSlot(i, s) : csvfile[p].BladeModel # ""

-----------------------------------------------------------------------------
(* C11 *)

\* the written slot rows of chassis of model m whose OperState is "Empty"
EmptyRowsOf(m) ==
    { p \in SlotRowsAt :
        /\ csvfile[p].ChassisModel = m
        /\ csvfile[p].OperState = <<"E","m","p","t","y">> }

HasEmptyCount(m) ==
    /\ DictHas(model_summary_counts, m)
    /\ DictHas(DictGet(model_summary_counts, m).statuses, <<"E","m","p","t","y">>)

EmptyCount(m) ==
    DictGet(DictGet(model_summary_counts, m).statuses, <<"E","m","p","t","y">>).count

\* C11 as claimed: in chassis.py, after the last chassis, the "Empty" count kept for
\* each chassis model is the number of written slot rows of chassis of that model
\* whose OperState is "Empty", and a model without such rows has no "Empty" count.
C11_EmptyAgrees ==
    AllTallied =>
       \A m \in ModelsSeen :
          IF HasEmptyCount(m)
          THEN EmptyCount(m) = Cardinality(EmptyRowsOf(m))
          ELSE EmptyRowsOf(m) = {}

====
